---------------------------- MODULE Spec2Model ----------------------------
(***************************************************************************)
(* Model of src/src/protocol.c of ttyd: the per-client session engine that *)
(* binds one web socket to one PTY-hosted child process.                   *)
(*                                                                         *)
(* Threads of the program:                                                 *)
(*   - the libwebsockets service thread, which runs callback_tty for every *)
(*     session; one callback runs to completion before the next starts;    *)
(*   - one thread per uv_thread_create (thread_cb), which forks the child  *)
(*     and then runs the session's libuv loop, calling read_cb.            *)
(* Each callback_tty case is one action; thread_cb and read_cb are split   *)
(* at their accesses to the fields they share with the service thread.     *)
(***************************************************************************)
EXTENDS Integers, Sequences, FiniteSets, TLC

\* ------------------------------------------------------------------ bounds
MaxClients == 2      \* remote peers that may try to connect
MaxThreads == 2      \* threads uv_thread_create can start per session
MaxInput   == 1      \* INPUT messages an admitted peer sends per session
MaxBuffer  == 3      \* bytes client->buffer may hold when a message starts
MaxOut     == 2      \* bytes a session's children write to their PTYs
MaxChunk   == 2      \* largest nread of one PTY read

Sessions == 1..MaxClients
Threads  == 1..MaxThreads

\* ---------------------------------------------------------------- constants
UV_EOF     == -4095
UV_ENOBUFS == -105
UV_EIO     == -5
LWS_CLOSE_STATUS_NORMAL               == 1000
LWS_CLOSE_STATUS_POLICY_VIOLATION     == 1008
LWS_CLOSE_STATUS_UNEXPECTED_CONDITION == 1011
USHRT == 65536

\* A NULL buffer pointer; a buffer is the sequence of its bytes.
NULL == <<>>
\* A NULL char* (server->credential when no credential is configured).
NULLSTR == "(null)"

initial_cmds == <<"SET_WINDOW_TITLE", "SET_RECONNECT", "SET_PREFERENCES">>

\* The pid and the PTY master descriptor forkpty hands to thread t of
\* session s: positive, and distinct for distinct forks.
PidOf(s, t) == (s - 1) * MaxThreads + t
FdOf(s, t)  == 2 + PidOf(s, t)

VARIABLES
    env,           \* the environment, fixed by Init: the peers that exist, the
                   \* message kinds they send, the threads the system grants the
                   \* process, the outcomes of execvp in a forked child, and
                   \* whether a session thread's stores may wait in the store
                   \* buffer of its processor before other threads see them
    server,        \* struct tty_server policy: credential, readonly, once, max_clients
    clients,       \* server->clients, the registry list
    client_count,  \* server->client_count
    exited,        \* the process called exit(0)
    conn,          \* libwebsockets' view of each connection
    client,        \* struct tty_client of each session
    th,            \* the threads started by uv_thread_create, per session
    mutex,         \* owner of client->mutex: 0 (free) or a thread
    frag,          \* tag of the message whose final fragment is still to come
    nin,           \* complete INPUT messages delivered once the spawn was started
    presented,     \* the peer has sent a complete JSON_DATA carrying the credential
    sent,          \* frames handed to lws_write, in order
    close_reason,  \* status given to lws_close_reason (0: none)
    pty_in,        \* bytes written to the session's PTY master, in order
    winsz,         \* window size last set on the session's PTY by TIOCSWINSZ
    nout,          \* bytes read so far from the session's PTYs
    res            \* what tty_client_destroy did, counted per resource

vars == <<env, server, clients, client_count, exited, conn, client, th, mutex,
          frag, nin, presented, sent, close_reason, pty_in, winsz, nout, res>>

\* ------------------------------------------------------------------ Init
\* lws allocates the per-session struct zeroed.
ZeroClient ==
    [running |-> FALSE, initialized |-> FALSE, initial_cmd_index |-> 0,
     authenticated |-> FALSE, buffer |-> NULL, state |-> "STATE_INIT",
     pty_len |-> 0, pty_buffer |-> NULL, pid |-> 0, pty |-> 0,
     size |-> [ws_row |-> 0, ws_col |-> 0]]

NoThread ==
    [pc |-> "none", pid |-> 0, pty |-> 0, nread |-> 0, buf |-> NULL,
     reading |-> FALSE, child |-> "none", end |-> "none", sb |-> <<>>]

NoRes ==
    [calls |-> 0, kill |-> 0, waitpid |-> 0, close |-> 0, free_buffer |-> 0,
     free_pty_buffer |-> 0, mutex_destroy |-> 0, cond_destroy |-> 0,
     loop_close |-> 0]

InitCommon ==
    /\ clients = {}
    /\ client_count = 0
    /\ exited = FALSE
    /\ conn = [s \in Sessions |-> "idle"]
    /\ client = [s \in Sessions |-> ZeroClient]
    /\ th = [s \in Sessions |-> [t \in Threads |-> NoThread]]
    /\ mutex = [s \in Sessions |-> 0]
    /\ frag = [s \in Sessions |-> ""]
    /\ nin = [s \in Sessions |-> 0]
    /\ presented = [s \in Sessions |-> FALSE]
    /\ sent = [s \in Sessions |-> <<>>]
    /\ close_reason = [s \in Sessions |-> 0]
    /\ pty_in = [s \in Sessions |-> <<>>]
    /\ winsz = [s \in Sessions |-> [ws_row |-> 0, ws_col |-> 0]]
    /\ nout = [s \in Sessions |-> 0]
    /\ res = [s \in Sessions |-> NoRes]

Tags == {"INPUT", "RESIZE_TERMINAL", "JSON_DATA", "UNKNOWN"}

\* One peer that sends every kind of message, under every credential and
\* read-only policy; the system grants the process one thread.
Init ==
    /\ env = [peers |-> {1}, tags |-> Tags, nthreads |-> 1, exec |-> {TRUE}, tso |-> FALSE]
    /\ server \in [credential : {NULLSTR, "s3cret"}, readonly : BOOLEAN,
                   once : {FALSE}, max_clients : {0}]
    /\ InitCommon

\* ------------------------------------------------------- registry (116-128)
\* A faulty variant of tty_client_remove: the count is decremented whether
\* or not the client was found in the list.
tty_client_remove_always(s) ==
    /\ clients' = clients \ {s}
    /\ client_count' = client_count - 1

\* tty_client_remove: unlink the client if it is in the list, and only then
\* decrement the count.
tty_client_remove(s) ==
    /\ clients' = clients \ {s}
    /\ client_count' = IF s \in clients THEN client_count - 1 ELSE client_count

\* "tty_client_remove(client); lws_close_reason(wsi, status, NULL, 0);
\*  return -1;": lws closes the connection and will call LWS_CALLBACK_CLOSED.
CloseWith(s, status) ==
    /\ tty_client_remove(s)
    /\ close_reason' = [close_reason EXCEPT ![s] = status]
    /\ conn' = [conn EXCEPT ![s] = "closing"]

\* The service thread runs one callback at a time, and delivers
\* FILTER_PROTOCOL_CONNECTION and ESTABLISHED of one upgrade back to back.
LwsIdle == \A s \in Sessions : conn[s] # "upgrading"

\* ---------------------------------------------- callback_tty (267-315)
\* A faulty variant of RefusedByLimit: the count is compared one too late.
RefusedByLimitOffByOne ==
    \/ server.once /\ client_count > 0
    \/ server.max_clients > 0 /\ client_count > server.max_clients

\* The --once and --max-clients admission checks.
RefusedByLimit ==
    \/ server.once /\ client_count > 0
    \/ server.max_clients > 0 /\ client_count = server.max_clients

\* LWS_CALLBACK_FILTER_PROTOCOL_CONNECTION.  legit: the request path equals
\* WS_PATH and, with --check-origin, Origin matches Host.
Filter(s) ==
    /\ ~exited /\ LwsIdle
    /\ s \in env.peers /\ conn[s] = "idle"
    /\ \E legit \in BOOLEAN :
          conn' = [conn EXCEPT ![s] =
                     IF RefusedByLimit \/ ~legit THEN "refused" ELSE "upgrading"]
    /\ UNCHANGED <<env, server, clients, client_count, exited, client, th, mutex,
                   frag, nin, presented, sent, close_reason, pty_in, winsz, nout, res>>

\* LWS_CALLBACK_ESTABLISHED.
Established(s) ==
    /\ ~exited
    /\ conn[s] = "upgrading"
    /\ client' = [client EXCEPT ![s].running = FALSE,
                                ![s].initialized = FALSE,
                                ![s].initial_cmd_index = 0,
                                ![s].authenticated = FALSE,
                                ![s].buffer = NULL,
                                ![s].state = "STATE_INIT",
                                ![s].pty_len = 0]
    /\ clients' = clients \cup {s}
    /\ client_count' = client_count + 1
    /\ conn' = [conn EXCEPT ![s] = "open"]
    /\ UNCHANGED <<env, server, exited, th, mutex, frag, nin, presented, sent,
                   close_reason, pty_in, winsz, nout, res>>

\* ---------------------------------------------- callback_tty (317-353)
\* A faulty variant of HandshakeDone: the bound is one too small.
HandshakeDoneOffByOne(c) == c.initial_cmd_index >= Len(initial_cmds) - 1

\* The handshake is over when the index has passed the last initial command.
HandshakeDone(c) == c.initial_cmd_index = Len(initial_cmds)

\* send_initial_message(wsi, index): the frame written.
send_initial_message(index) == <<initial_cmds[index + 1]>>

\* The OUTPUT frame: the tag byte and pty_len bytes of pty_buffer.
OutputFrame(c) == <<"OUTPUT">> \o SubSeq(c.pty_buffer, 1, c.pty_len)

\* LWS_CALLBACK_SERVER_WRITEABLE.  wrote: lws_write's result was >= 0.
Writeable(s) ==
    /\ ~exited /\ LwsIdle
    /\ conn[s] = "open"
    /\ LET c == client[s] IN
       IF ~c.initialized THEN
          IF HandshakeDone(c) THEN
             /\ client' = [client EXCEPT ![s].initialized = TRUE]
             /\ UNCHANGED <<clients, client_count, close_reason, conn, sent>>
          ELSE
             \E wrote \in BOOLEAN :
                IF wrote THEN
                   /\ sent' = [sent EXCEPT ![s] =
                                 Append(@, send_initial_message(c.initial_cmd_index))]
                   /\ client' = [client EXCEPT ![s].initial_cmd_index = @ + 1]
                   /\ UNCHANGED <<clients, client_count, close_reason, conn>>
                ELSE
                   /\ CloseWith(s, LWS_CLOSE_STATUS_UNEXPECTED_CONDITION)
                   /\ UNCHANGED <<client, sent>>
       ELSE IF c.state # "STATE_READY" THEN
          UNCHANGED <<client, clients, client_count, close_reason, conn, sent>>
       ELSE IF c.pty_len <= 0 THEN
          /\ CloseWith(s, IF c.pty_len = 0 THEN LWS_CLOSE_STATUS_NORMAL
                          ELSE LWS_CLOSE_STATUS_UNEXPECTED_CONDITION)
          /\ UNCHANGED <<client, sent>>
       ELSE
          \* The result of lws_write is only logged.
          /\ sent' = [sent EXCEPT ![s] = Append(@, OutputFrame(c))]
          /\ client' = [client EXCEPT ![s].pty_buffer = NULL,
                                      ![s].state = "STATE_DONE"]
          /\ UNCHANGED <<clients, client_count, close_reason, conn>>
    /\ UNCHANGED <<env, server, exited, th, mutex, frag, nin, presented,
                   pty_in, winsz, nout, res>>

\* ---------------------------------------------- client messages (inputs)
\* A logical client message: its tag byte, then its payload.  An INPUT
\* payload is numbered by its arrival, so that order and loss are visible.
ResizePayloads ==
    { [columns |-> 80, rows |-> 24], [columns |-> 65668, rows |-> 40],
      [rows |-> 24], [malformed |-> TRUE] }

AuthPayloads ==
    { [AuthToken |-> "s3cret"], [AuthToken |-> "nope"], [other |-> 0],
      [malformed |-> TRUE] }

Payloads(s, tag) ==
    IF tag = "INPUT" THEN {nin[s] + 1}
    ELSE IF tag = "RESIZE_TERMINAL" THEN ResizePayloads
    ELSE IF tag = "JSON_DATA" THEN AuthPayloads
    ELSE {0}

Messages(s) == UNION {{<<tag, p>> : p \in Payloads(s, tag)} : tag \in env.tags}

\* ---------------------------------------------- parse_window_size (61-84)
\* json_tokener_parse: the object, or NULL (no fields) for malformed text.
json_tokener_parse(text) ==
    IF Len(text) = 1 /\ "malformed" \notin DOMAIN text[1] THEN text[1]
    ELSE [malformed |-> TRUE]

json_object_object_get_ex(obj, key) ==
    "malformed" \notin DOMAIN obj /\ key \in DOMAIN obj

\* Returns whether both fields exist and the size to store: *size is written
\* only on success, each dimension cast to unsigned short.
parse_window_size(json, size) ==
    LET obj == json_tokener_parse(json) IN
    IF ~json_object_object_get_ex(obj, "columns") THEN [ok |-> FALSE, size |-> size]
    ELSE IF ~json_object_object_get_ex(obj, "rows") THEN [ok |-> FALSE, size |-> size]
    ELSE [ok |-> TRUE,
          size |-> [ws_row |-> obj.rows % USHRT, ws_col |-> obj.columns % USHRT]]

\* ---------------------------------------------- callback_tty (355-433)
\* The auth check of line 369: an unauthenticated peer may only send JSON_DATA.
AuthRefuses(c, command) ==
    server.credential # NULLSTR /\ ~c.authenticated /\ command # "JSON_DATA"

\* A faulty variant of TokenMatches: the token's value is not compared.
TokenMatchesAnyToken(buf) ==
    json_object_object_get_ex(json_tokener_parse(Tail(buf)), "AuthToken")

\* Lines 403-408: the frame carries an AuthToken equal to the credential.
TokenMatches(buf) ==
    LET obj == json_tokener_parse(Tail(buf)) IN
    /\ json_object_object_get_ex(obj, "AuthToken")
    /\ obj.AuthToken = server.credential

\* The thread slot uv_thread_create uses next (0: the system grants no
\* further thread, and uv_thread_create fails).
FreeThread(s) ==
    IF /\ \E t \in Threads : th[s][t].pc = "none"
       /\ Cardinality({x \in Sessions \X Threads : th[x[1]][x[2]].pc # "none"})
            < env.nthreads
    THEN CHOOSE t \in Threads :
            th[s][t].pc = "none" /\ \A u \in Threads : th[s][u].pc = "none" => t <= u
    ELSE 0

\* case INPUT (380-391).  wrote: write() did not return -1.
CaseInput(s, buf) ==
    LET c == client[s] IN
    IF c.pty = 0 THEN
       /\ client' = [client EXCEPT ![s].buffer = NULL]
       /\ UNCHANGED <<clients, client_count, close_reason, conn, pty_in>>
    ELSE IF server.readonly THEN
       \* return 0: the buffer is kept
       /\ client' = [client EXCEPT ![s].buffer = buf]
       /\ UNCHANGED <<clients, client_count, close_reason, conn, pty_in>>
    ELSE
       \E wrote \in BOOLEAN :
          IF wrote THEN
              /\ pty_in' = [pty_in EXCEPT ![s] = @ \o Tail(buf)]
              /\ client' = [client EXCEPT ![s].buffer = NULL]
              /\ UNCHANGED <<clients, client_count, close_reason, conn>>
          ELSE
              /\ CloseWith(s, LWS_CLOSE_STATUS_UNEXPECTED_CONDITION)
              /\ client' = [client EXCEPT ![s].buffer = buf]
              /\ UNCHANGED pty_in

\* case RESIZE_TERMINAL (392-398).
CaseResize(s, buf) ==
    LET c == client[s]
        r == parse_window_size(Tail(buf), c.size)
    IN  /\ client' = [client EXCEPT ![s].buffer = NULL, ![s].size = r.size]
        /\ winsz' = IF r.ok /\ c.pty > 0
                    THEN [winsz EXCEPT ![s] = r.size]
                    ELSE winsz

\* A faulty variant of AuthFails: the refusal sits in the else branch of the
\* token comparison, so a frame without a token is let through.
AuthFailsOnlyOnWrongToken(c, buf) ==
    /\ server.credential # NULLSTR /\ ~c.authenticated
    /\ json_object_object_get_ex(json_tokener_parse(Tail(buf)), "AuthToken")
    /\ ~TokenMatches(buf)

\* Lines 402-416: a credential is configured and the session is still not
\* authenticated after the token was looked at.
AuthFails(c, buf) ==
    server.credential # NULLSTR /\ ~(c.authenticated \/ TokenMatches(buf))

\* case JSON_DATA (399-423).  created: uv_thread_create returned 0.
CaseJson(s, buf) ==
    LET c == client[s] IN
    IF c.pid > 0 THEN
       /\ client' = [client EXCEPT ![s].buffer = NULL]
       /\ UNCHANGED <<clients, client_count, close_reason, conn, th>>
    ELSE IF AuthFails(c, buf) THEN
       /\ CloseWith(s, LWS_CLOSE_STATUS_POLICY_VIOLATION)
       /\ client' = [client EXCEPT ![s].buffer = buf]
       /\ UNCHANGED th
    ELSE
       \E created \in BOOLEAN :
          IF created /\ FreeThread(s) # 0 THEN
             /\ th' = [th EXCEPT ![s][FreeThread(s)].pc = "forkpty",
                                 ![s][FreeThread(s)].end = "none"]
             /\ client' = [client EXCEPT
                             ![s].buffer = NULL,
                             ![s].authenticated =
                                 IF server.credential # NULLSTR THEN TRUE ELSE @]
             /\ UNCHANGED <<clients, client_count, close_reason, conn>>
          ELSE
             \* return 1: lws closes the connection
             /\ conn' = [conn EXCEPT ![s] = "closing"]
             /\ client' = [client EXCEPT
                             ![s].buffer = buf,
                             ![s].authenticated =
                                 IF server.credential # NULLSTR THEN TRUE ELSE @]
             /\ UNCHANGED <<clients, client_count, close_reason, th>>

\* LWS_CALLBACK_RECEIVE for one transport fragment `in`; final: no payload
\* remains and this is the final fragment of the message.
CallbackReceive(s, in, final) ==
    LET c == client[s]
        buf == IF c.buffer = NULL THEN in ELSE c.buffer \o in
        command == buf[1]
    IN
    IF AuthRefuses(c, command) THEN
       \* return 1
       /\ client' = [client EXCEPT ![s].buffer = buf]
       /\ conn' = [conn EXCEPT ![s] = "closing"]
       /\ UNCHANGED <<clients, client_count, close_reason, th, pty_in, winsz>>
    ELSE IF ~final THEN
       /\ client' = [client EXCEPT ![s].buffer = buf]
       /\ UNCHANGED <<clients, client_count, close_reason, conn, th, pty_in, winsz>>
    ELSE IF command = "INPUT" THEN
       CaseInput(s, buf) /\ UNCHANGED <<th, winsz>>
    ELSE IF command = "RESIZE_TERMINAL" THEN
       CaseResize(s, buf)
       /\ UNCHANGED <<clients, client_count, close_reason, conn, th, pty_in>>
    ELSE IF command = "JSON_DATA" THEN
       CaseJson(s, buf) /\ UNCHANGED <<pty_in, winsz>>
    ELSE
       /\ client' = [client EXCEPT ![s].buffer = NULL]
       /\ UNCHANGED <<clients, client_count, close_reason, conn, th, pty_in, winsz>>

\* uv_thread_create has started the spawn of the session's child: from then
\* on the peer's INPUT is meant for the PTY.
Spawning(s) == \E t \in Threads : th[s][t].pc # "none"

\* The payload of a JSON_DATA message carries the configured credential.
CarriesCredential(tag, p) ==
    tag = "JSON_DATA" /\ p = [AuthToken |-> server.credential]

\* The peer starts message m, whole or as a first fragment holding the tag.
Deliver(s, m, whole) ==
    /\ ~exited /\ LwsIdle
    /\ conn[s] = "open" /\ frag[s] = ""
    /\ m \in Messages(s)
    /\ m[1] = "INPUT" => nin[s] < MaxInput
    /\ Len(client[s].buffer) < MaxBuffer
    /\ CallbackReceive(s, IF whole THEN m ELSE <<m[1]>>, whole)
    /\ frag' = [frag EXCEPT ![s] = IF whole THEN "" ELSE m[1]]
    /\ nin' = [nin EXCEPT ![s] =
                 IF whole /\ m[1] = "INPUT" /\ Spawning(s) THEN @ + 1 ELSE @]
    /\ presented' = [presented EXCEPT ![s] =
                       @ \/ (whole /\ CarriesCredential(m[1], m[2]))]
    /\ UNCHANGED <<env, server, exited, mutex, sent, nout, res>>

\* The final fragment, holding payload p, of the message in flight arrives.
DeliverRest(s, p) ==
    /\ ~exited /\ LwsIdle
    /\ conn[s] = "open" /\ frag[s] # ""
    /\ p \in Payloads(s, frag[s])
    /\ CallbackReceive(s, <<p>>, TRUE)
    /\ frag' = [frag EXCEPT ![s] = ""]
    /\ nin' = [nin EXCEPT ![s] =
                 IF frag[s] = "INPUT" /\ Spawning(s) THEN @ + 1 ELSE @]
    /\ presented' = [presented EXCEPT ![s] = @ \/ CarriesCredential(frag[s], p)]
    /\ UNCHANGED <<env, server, exited, mutex, sent, nout, res>>

Receive(s) == \E m \in Messages(s), whole \in BOOLEAN : Deliver(s, m, whole)

ReceiveRest(s) == \E p \in Payloads(s, frag[s]) : DeliverRest(s, p)

\* ---------------------------------------------- thread_cb (228-257)
\* forkpty (232) and, in the parent, client->pid = pid (245): forkpty
\* touches nothing the service thread sees, so the two are one step.
\* forked: forkpty did not return -1.  executed: execvp (240) replaced the
\* child's image; if not, the child has printed the error and goes on.
ForkPty(s, t) ==
    /\ ~exited
    /\ th[s][t].pc = "forkpty"
    /\ \E forked \in BOOLEAN, executed \in env.exec :
          IF forked THEN
             /\ th' = [th EXCEPT ![s][t] =
                         [@ EXCEPT !.pc = "set_pty", !.pid = PidOf(s, t),
                                   !.pty = FdOf(s, t),
                                   !.child = IF executed THEN "alive"
                                             ELSE "exec_failed"]]
             /\ client' = [client EXCEPT ![s].pid = PidOf(s, t)]
          ELSE
             \* return: the thread is over
             /\ th' = [th EXCEPT ![s][t].pc = "none",
                                 ![s][t].end = "spawn_failed"]
             /\ UNCHANGED client
    /\ UNCHANGED <<env, server, clients, client_count, exited, conn, mutex,
                   frag, nin, presented, sent, close_reason, pty_in, winsz, nout, res>>

\* A plain store of the session thread to a field of the client: the other
\* threads see it at once, or once it has left the store buffer.
Store(s, t, field, value, pc) ==
    IF env.tso THEN
       /\ th' = [th EXCEPT ![s][t].pc = pc,
                           ![s][t].sb = Append(@, <<field, value>>)]
       /\ UNCHANGED client
    ELSE
       /\ th' = [th EXCEPT ![s][t].pc = pc]
       /\ client' = [client EXCEPT ![s][field] = value]

\* The oldest store in the thread's store buffer reaches memory.
Flush(s, t) ==
    /\ ~exited
    /\ th[s][t].sb # <<>>
    /\ client' = [client EXCEPT ![s][Head(th[s][t].sb)[1]] = Head(th[s][t].sb)[2]]
    /\ th' = [th EXCEPT ![s][t].sb = Tail(@)]
    /\ UNCHANGED <<env, server, clients, client_count, exited, conn, mutex,
                   frag, nin, presented, sent, close_reason, pty_in, winsz, nout, res>>

\* The child in which execvp failed returns from the if at line 240 and
\* runs the rest of thread_cb (244-256) on its copy of the session.
ChildFallsThrough(s, t) ==
    /\ th[s][t].child = "exec_failed"
    /\ th' = [th EXCEPT ![s][t].child = "in_thread_cb"]
    /\ UNCHANGED <<env, server, clients, client_count, exited, conn, client, mutex,
                   frag, nin, presented, sent, close_reason, pty_in, winsz, nout, res>>

\* client->pty = pty (246).
SetPty(s, t) ==
    /\ ~exited
    /\ th[s][t].pc = "set_pty"
    /\ Store(s, t, "pty", th[s][t].pty, "set_running")
    /\ UNCHANGED <<env, server, clients, client_count, exited, conn, mutex,
                   frag, nin, presented, sent, close_reason, pty_in, winsz, nout, res>>

\* client->running = true (247).
SetRunning(s, t) ==
    /\ ~exited
    /\ th[s][t].pc = "set_running"
    /\ Store(s, t, "running", TRUE, "set_winsz")
    /\ UNCHANGED <<env, server, clients, client_count, exited, conn, mutex,
                   frag, nin, presented, sent, close_reason, pty_in, winsz, nout, res>>

\* The initial window size (248-249), then uv_pipe_open and uv_read_start
\* (251-254); the thread enters uv_run (256).
SetWinsz(s, t) ==
    /\ ~exited
    /\ th[s][t].pc = "set_winsz"
    /\ LET c == client[s] IN
       winsz' = IF c.size.ws_row > 0 /\ c.size.ws_col > 0
                THEN [winsz EXCEPT ![s] = c.size]
                ELSE winsz
    /\ th' = [th EXCEPT ![s][t].pc = "uv_run", ![s][t].reading = TRUE]
    /\ UNCHANGED <<env, server, clients, client_count, exited, conn, client, mutex,
                   frag, nin, presented, sent, close_reason, pty_in, nout, res>>

\* ---------------------------------------------- read_cb (183-226)
\* What one read of the PTY master can hand to read_cb: data, 0 (EAGAIN),
\* end-of-file or an error.  alloc_cb never returns an empty buffer, so
\* libuv never reports UV_ENOBUFS.
ReadResults(s) ==
    {n \in 1..MaxChunk : nout[s] + n <= MaxOut} \cup {0, UV_EOF, UV_EIO}

\* The bytes of a chunk of n bytes: the child's output is numbered in the
\* order it is read.
Chunk(s, n) == [i \in 1..n |-> nout[s] + i]

\* libuv reads the PTY and calls read_cb(stream, nread, buf).  After
\* end-of-file or an error libuv stops reading the stream, and uv_stop
\* (155) ends uv_run.  The system calls of uv_run have drained the thread's
\* store buffer.
Read(s, t) ==
    /\ ~exited
    /\ th[s][t].pc = "uv_run" /\ th[s][t].reading
    /\ th[s][t].sb = <<>>
    /\ res[s].loop_close = 0
    /\ \E nread \in ReadResults(s) :
          /\ th' = [th EXCEPT ![s][t].pc = "rc_loop",
                              ![s][t].nread = nread,
                              ![s][t].buf = IF nread > 0 THEN Chunk(s, nread) ELSE NULL,
                              ![s][t].reading = nread \notin {UV_EOF, UV_EIO},
                              ![s][t].end = IF nread = UV_EOF THEN "eof"
                                            ELSE IF nread = UV_EIO THEN "error"
                                            ELSE "none"]
          /\ nout' = [nout EXCEPT ![s] = IF nread > 0 THEN @ + nread ELSE @]
    /\ UNCHANGED <<env, server, clients, client_count, exited, conn, client, mutex,
                   frag, nin, presented, sent, close_reason, pty_in, winsz, res>>

\* The slot is Full and the reader has to wait (192).
MustWait(c) == c.state = "STATE_READY"

\* Lines 195-224, run with the mutex held by t.
RcBody(s, t) ==
    LET nread == th[s][t].nread IN
    IF nread <= 0 /\ (nread = UV_ENOBUFS \/ nread = 0) THEN
       \* continue: back to the loop head, the mutex still locked
       /\ th' = [th EXCEPT ![s][t].pc = "rc_loop"]
       /\ mutex' = [mutex EXCEPT ![s] = t]
       /\ UNCHANGED client
    ELSE
       /\ client' = [client EXCEPT
                       ![s].pty_len = IF nread <= 0 THEN 0 ELSE nread,
                       ![s].pty_buffer = IF nread <= 0 THEN NULL ELSE th[s][t].buf,
                       ![s].state = "STATE_READY"]
       /\ th' = [th EXCEPT ![s][t].pc = "uv_run", ![s][t].buf = NULL,
                           ![s][t].nread = 0]
       /\ mutex' = [mutex EXCEPT ![s] = 0]

\* The loop head (190-194): leave if the session no longer runs; otherwise
\* lock the mutex and wait if the slot is Full, else go on to the body.
RcLock(s, t) ==
    /\ ~exited
    /\ th[s][t].pc = "rc_loop"
    /\ IF ~client[s].running THEN
          /\ th' = [th EXCEPT ![s][t].pc = "uv_run", ![s][t].buf = NULL,
                              ![s][t].nread = 0]
          /\ UNCHANGED <<client, mutex>>
       ELSE
          /\ mutex[s] = 0
          /\ IF MustWait(client[s]) THEN
                /\ th' = [th EXCEPT ![s][t].pc = "rc_wait"]
                /\ UNCHANGED <<client, mutex>>
             ELSE RcBody(s, t)
    /\ UNCHANGED <<env, server, clients, client_count, exited, conn,
                   frag, nin, presented, sent, close_reason, pty_in, winsz, nout, res>>

\* uv_cond_wait returns (193): the woken reader has the mutex again.
RcWake(s, t) ==
    /\ ~exited
    /\ th[s][t].pc = "rc_woken"
    /\ mutex[s] = 0
    /\ RcBody(s, t)
    /\ UNCHANGED <<env, server, clients, client_count, exited, conn,
                   frag, nin, presented, sent, close_reason, pty_in, winsz, nout, res>>

\* The socket task signals the reader once the slot is Drained.  The call
\* of uv_cond_signal is not in protocol.c; it is taken from the design
\* ("marks the slot Drained and signals the reader").
Signal(s, t) ==
    /\ ~exited /\ LwsIdle
    /\ conn[s] = "open"
    /\ client[s].state = "STATE_DONE"
    /\ mutex[s] = 0
    /\ th[s][t].pc = "rc_wait"
    /\ th' = [th EXCEPT ![s][t].pc = "rc_woken"]
    /\ UNCHANGED <<env, server, clients, client_count, exited, conn, client, mutex,
                   frag, nin, presented, sent, close_reason, pty_in, winsz, nout, res>>

\* ---------------------------------------------- tty_client_destroy (130-168)
\* The child is killed only if the session runs and has a pid.
NothingToKill(c) == ~c.running \/ c.pid <= 0

Bump(r, f) == [r EXCEPT ![f] = @ + 1]

\* What one call of tty_client_destroy releases.
Released(c, r) ==
    LET r1 == IF NothingToKill(c) THEN r
              ELSE Bump(Bump(Bump(r, "kill"), "waitpid"), "close")
        r2 == IF c.buffer # NULL THEN Bump(r1, "free_buffer") ELSE r1
        r3 == IF c.pty_buffer # NULL THEN Bump(r2, "free_pty_buffer") ELSE r2
    IN  Bump(Bump(Bump(Bump(r3, "mutex_destroy"), "cond_destroy"), "loop_close"), "calls")

tty_client_destroy(s) ==
    LET c == client[s] IN
    /\ client' = [client EXCEPT ![s].running = IF NothingToKill(c) THEN @ ELSE FALSE]
    /\ th' = [th EXCEPT ![s] =
                [t \in Threads |->
                   IF ~NothingToKill(c) /\ th[s][t].pid = c.pid
                   THEN [th[s][t] EXCEPT !.child = "reaped"]
                   ELSE th[s][t]]]
    /\ res' = [res EXCEPT ![s] = Released(c, @)]
    /\ tty_client_remove(s)

\* LWS_CALLBACK_CLOSED (435-444): the peer closed the socket, or a callback
\* returned non-zero.
Closed(s) ==
    /\ ~exited /\ LwsIdle
    /\ conn[s] \in {"open", "closing"}
    /\ tty_client_destroy(s)
    /\ exited' = (server.once /\ client_count' = 0)
    /\ conn' = [conn EXCEPT ![s] = "closed"]
    /\ UNCHANGED <<env, server, mutex, frag, nin, presented, sent, close_reason,
                   pty_in, winsz, nout>>

\* ------------------------------------------------------------------ Next
Next ==
    \/ \E s \in Sessions : Filter(s)
    \/ \E s \in Sessions : Established(s)
    \/ \E s \in Sessions : Writeable(s)
    \/ \E s \in Sessions : Receive(s)
    \/ \E s \in Sessions : ReceiveRest(s)
    \/ \E s \in Sessions : Closed(s)
    \/ \E s \in Sessions, t \in Threads : Signal(s, t)
    \/ \E s \in Sessions, t \in Threads : ForkPty(s, t)
    \/ \E s \in Sessions, t \in Threads : SetPty(s, t)
    \/ \E s \in Sessions, t \in Threads : SetRunning(s, t)
    \/ \E s \in Sessions, t \in Threads : SetWinsz(s, t)
    \/ \E s \in Sessions, t \in Threads : Read(s, t)
    \/ \E s \in Sessions, t \in Threads : RcLock(s, t)
    \/ \E s \in Sessions, t \in Threads : RcWake(s, t)

Spec == Init /\ [][Next]_vars


\* A peer that only starts sessions, on a server without credential, while the
\* system grants the process every thread it asks for.
InitRace ==
    /\ env = [peers |-> {1}, tags |-> {"JSON_DATA"}, nthreads |-> MaxThreads, exec |-> {TRUE},
              tso |-> FALSE]
    /\ server = [credential |-> NULLSTR, readonly |-> FALSE,
                 once |-> FALSE, max_clients |-> 0]
    /\ InitCommon

SpecRace == InitRace /\ [][Next]_vars

\* Every peer connects, under every --once and --max-clients policy; the
\* peers only start sessions and the system grants the process one thread.
InitReg ==
    /\ env = [peers |-> Sessions, tags |-> {"JSON_DATA"}, nthreads |-> 1, exec |-> {TRUE}, tso |-> FALSE]
    /\ server \in [credential : {NULLSTR}, readonly : {FALSE},
                   once : BOOLEAN, max_clients : 0..MaxClients]
    /\ InitCommon

SpecReg == InitReg /\ [][Next]_vars

\* tty_client_destroy is called once more on a session that was destroyed.
DestroyAgain(s) ==
    /\ conn[s] = "closed" /\ res[s].calls = 1
    /\ tty_client_destroy(s)
    /\ UNCHANGED <<env, server, exited, conn, mutex, frag, nin, presented, sent,
                   close_reason, pty_in, winsz, nout>>

NextTwice ==
    \/ Next
    \/ \E s \in Sessions : DestroyAgain(s)

SpecTwice == Init /\ [][NextTwice]_vars

\* A peer that only starts a session, on a server without credential.
InitLive ==
    /\ env = [peers |-> {1}, tags |-> {"JSON_DATA"}, nthreads |-> 1, exec |-> {TRUE}, tso |-> FALSE]
    /\ server = [credential |-> NULLSTR, readonly |-> FALSE,
                 once |-> FALSE, max_clients |-> 0]
    /\ InitCommon

\* LWS_CALLBACK_CLOSED for a connection that a callback asked to close.
ServerClosed(s) == conn[s] = "closing" /\ Closed(s)

\* What the program does by itself keeps running: the service thread runs
\* the callbacks that are due and signals drained slots, and the session
\* threads run.  The peer and the child (Receive, Read, the peer's close)
\* may stay silent for ever.
Fairness ==
    \A s \in Sessions :
       /\ WF_vars(Established(s))
       /\ WF_vars(Writeable(s))
       /\ WF_vars(ServerClosed(s))
       /\ \A t \in Threads :
             /\ WF_vars(Signal(s, t))
             /\ WF_vars(ForkPty(s, t))
             /\ WF_vars(SetPty(s, t))
             /\ WF_vars(SetRunning(s, t))
             /\ WF_vars(SetWinsz(s, t))
             /\ WF_vars(RcLock(s, t))
             /\ WF_vars(RcWake(s, t))

SpecLive == InitLive /\ [][Next]_vars /\ Fairness

\* A peer that starts a session on a server without credential; execvp may
\* fail in the forked child.
InitExec ==
    /\ env = [peers |-> {1}, tags |-> {"JSON_DATA"}, nthreads |-> 1,
              exec |-> BOOLEAN, tso |-> FALSE]
    /\ server = [credential |-> NULLSTR, readonly |-> FALSE,
                 once |-> FALSE, max_clients |-> 0]
    /\ InitCommon

NextExec ==
    \/ Next
    \/ \E s \in Sessions, t \in Threads : ChildFallsThrough(s, t)

SpecExec == InitExec /\ [][NextExec]_vars

\* A peer that starts a session and resizes the terminal, on a server without
\* credential; the session thread runs on a processor with a store buffer.
InitTso ==
    /\ env = [peers |-> {1}, tags |-> {"JSON_DATA", "RESIZE_TERMINAL"},
              nthreads |-> 1, exec |-> {TRUE}, tso |-> TRUE]
    /\ server = [credential |-> NULLSTR, readonly |-> FALSE,
                 once |-> FALSE, max_clients |-> 0]
    /\ InitCommon

NextTso ==
    \/ Next
    \/ \E s \in Sessions, t \in Threads : Flush(s, t)

SpecTso == InitTso /\ [][NextTso]_vars

\* ---------------------------------------------------------------------------
\* Properties
\* ---------------------------------------------------------------------------

\* The frames of sent[s] that are not OUTPUT frames.
InitialFrames(s) == {i \in 1..Len(sent[s]) : sent[s][i][1] # "OUTPUT"}

\* C1: the server sends exactly the three initial messages, in the order
\* title, reconnect, preferences, before any OUTPUT frame; initial_cmd_index
\* counts the initial messages sent and never exceeds three; every later frame
\* is an OUTPUT frame, sent only by an initialized session.
HandshakeOrder ==
    \A s \in Sessions :
       /\ \A i \in 1..Len(sent[s]) :
             IF i <= Len(initial_cmds)
             THEN sent[s][i] = <<initial_cmds[i]>>
             ELSE sent[s][i][1] = "OUTPUT" /\ client[s].initialized
       /\ client[s].initial_cmd_index \in 0..Len(initial_cmds)
       /\ conn[s] # "idle" =>
             client[s].initial_cmd_index = Cardinality(InitialFrames(s))

\* C1: initial_cmd_index only increases during a session.
HandshakeIndexGrows ==
    [][\A s \in Sessions :
          conn[s] = "open" =>
             client'[s].initial_cmd_index >= client[s].initial_cmd_index]_vars

\* C1, both parts.
HandshakeBeforeOutput == []HandshakeOrder /\ HandshakeIndexGrows

\* An OUTPUT frame has followed the three initial messages.
OutputAfterHandshake ==
    \E s \in Sessions :
       /\ Len(sent[s]) > Len(initial_cmds)
       /\ sent[s][Len(sent[s])][1] = "OUTPUT"

\* A thread was started for session s, or a child was forked for it.
Spawned(s) ==
    \/ client[s].pid > 0
    \/ \E t \in Threads : th[s][t].pc # "none" \/ th[s][t].child # "none"

\* C2: with a credential configured, a session for which a thread was started
\* or a child forked has received a JSON_DATA frame whose AuthToken equals the
\* credential; without a credential any JSON_DATA frame may start the spawn.
SpawnNeedsCredential ==
    \A s \in Sessions :
       server.credential # NULLSTR /\ Spawned(s) =>
          presented[s] /\ client[s].authenticated

\* A child runs for a session that had to present the credential.
SpawnedAfterAuth ==
    \E s \in Sessions, t \in Threads :
       /\ server.credential # NULLSTR
       /\ presented[s]
       /\ th[s][t].child = "alive"

\* The callback handles the last fragment of a message with tag and payload p.
Completes(s, tag, p) ==
    \/ Deliver(s, <<tag, p>>, TRUE)
    \/ frag[s] = tag /\ DeliverRest(s, p)

\* C3: with a credential configured, a complete JSON_DATA frame of an
\* unauthenticated session that misses the token, has another token or is no
\* JSON removes the session from the registry and closes it with 1008, and no
\* thread is started and no child forked for it, then or later.
BadTokenRefused ==
    /\ [][\A s \in Sessions, p \in AuthPayloads :
             /\ server.credential # NULLSTR
             /\ ~client[s].authenticated
             /\ p # [AuthToken |-> server.credential]
             /\ Completes(s, "JSON_DATA", p)
             => /\ s \notin clients'
                /\ close_reason'[s] = LWS_CLOSE_STATUS_POLICY_VIOLATION
                /\ conn'[s] = "closing"
                /\ th'[s] = [t \in Threads |-> NoThread]]_vars
    /\ [](\A s \in Sessions :
             close_reason[s] = LWS_CLOSE_STATUS_POLICY_VIOLATION =>
                /\ ~Spawned(s)
                /\ s \notin clients
                /\ conn[s] \in {"closing", "closed"})

\* A session was closed for a policy violation.
ClosedForPolicy ==
    \E s \in Sessions :
       /\ server.credential # NULLSTR
       /\ ~presented[s]
       /\ close_reason[s] = LWS_CLOSE_STATUS_POLICY_VIOLATION


\* The bytes of the OUTPUT frames among the first n frames sent, in order.
RECURSIVE OutBytes(_, _)
OutBytes(s, n) ==
    IF n = 0 THEN <<>>
    ELSE OutBytes(s, n - 1) \o
         (IF sent[s][n][1] = "OUTPUT" THEN Tail(sent[s][n]) ELSE <<>>)

\* The chunk published in the slot and not yet taken.
Pending(s) ==
    IF client[s].state = "STATE_READY" /\ client[s].pty_len > 0
    THEN SubSeq(client[s].pty_buffer, 1, client[s].pty_len)
    ELSE <<>>

\* The bytes a reader has read and not yet published.
Held(s) == UNION {{th[s][t].buf[i] : i \in 1..Len(th[s][t].buf)} : t \in Threads}

\* C4: while the session runs, the bytes read from the PTY are the bytes sent
\* in OUTPUT frames followed by the chunk in the slot, in the order read and
\* each once, followed by the bytes a reader still holds: no chunk is
\* overwritten, dropped or sent twice.
OutputInReadOrder ==
    \A s \in Sessions :
       client[s].running /\ conn[s] = "open" =>
          LET out == OutBytes(s, Len(sent[s])) \o Pending(s) IN
          /\ out = [i \in 1..Len(out) |-> i]
          /\ (1..Len(out)) \cup Held(s) = 1..nout[s]


\* C5: the payloads of the complete INPUT frames that arrived after the spawn
\* was started are the bytes written to the PTY, in order, when input is
\* allowed; in read-only mode nothing is written to the PTY.
InputReachesPty ==
    \A s \in Sessions :
       conn[s] = "open" =>
          pty_in[s] = IF server.readonly THEN <<>>
                      ELSE [i \in 1..nin[s] |-> i]

\* The window size that a well-formed resize payload asks for.
SizeOf(p) == [ws_row |-> p.rows % USHRT, ws_col |-> p.columns % USHRT]

\* The resize payloads that are JSON with both columns and rows.
WellFormed == {p \in ResizePayloads : DOMAIN p = {"columns", "rows"}}

\* C6: in read-only mode a complete, well-formed RESIZE_TERMINAL frame that
\* arrives while the child runs sets the PTY's window size to its columns and
\* rows, and the session stays open.
ResizeAppliedReadonly ==
    [][\A s \in Sessions, p \in WellFormed :
          /\ server.readonly
          /\ client[s].running /\ client[s].pty > 0
          /\ Completes(s, "RESIZE_TERMINAL", p)
          => winsz'[s] = SizeOf(p) /\ conn'[s] = "open"]_vars

\* The way the reads of session s ended: "eof", "error", or "none".
ReadEnd(s) ==
    IF \E t \in Threads : th[s][t].end = "eof" THEN "eof"
    ELSE IF \E t \in Threads : th[s][t].end = "error" THEN "error"
    ELSE "none"

\* C7: the close code tells why the PTY ended: a session is closed with 1000
\* only if its PTY reached end-of-file, and a session whose PTY read failed is
\* closed with 1011 or not by the server; no OUTPUT frame without payload is
\* ever sent.
CloseCodeTellsEofFromError ==
    \A s \in Sessions :
       /\ \A i \in 1..Len(sent[s]) :
             sent[s][i][1] = "OUTPUT" => Len(sent[s][i]) > 1
       /\ close_reason[s] = LWS_CLOSE_STATUS_NORMAL => ReadEnd(s) = "eof"
       /\ ReadEnd(s) = "error" =>
             close_reason[s] \in {0, LWS_CLOSE_STATUS_UNEXPECTED_CONDITION}


\* The admission limit is reached by the sessions in the registry.
LimitReached ==
    \/ server.once /\ Cardinality(clients) >= 1
    \/ server.max_clients > 0 /\ Cardinality(clients) >= server.max_clients

\* C8: with --once the registry never holds more than one session, with
\* --max-clients never more than max_clients; and a connection attempt made
\* while the limit is reached is refused before the upgrade.
AdmissionLimit ==
    /\ [](/\ server.once => Cardinality(clients) <= 1 /\ client_count <= 1
          /\ server.max_clients > 0 =>
                /\ Cardinality(clients) <= server.max_clients
                /\ client_count <= server.max_clients)
    /\ [][\A s \in Sessions :
             conn[s] = "idle" /\ conn'[s] # "idle" /\ LimitReached
                => conn'[s] = "refused" /\ clients' = clients]_vars

\* An attempt was refused while max_clients sessions were registered.
RefusedAtLimit ==
    \E s \in Sessions :
       /\ conn[s] = "refused"
       /\ server.max_clients > 0
       /\ Cardinality(clients) = server.max_clients

\* C9: client_count equals the number of sessions in the clients list and is
\* never negative; an open session is in the list, a closed one is not, and
\* a session the server closed with a close code has left the list.
RegistryCount ==
    /\ client_count = Cardinality(clients)
    /\ client_count >= 0
    /\ \A s \in Sessions :
          /\ conn[s] = "open" => s \in clients
          /\ conn[s] \in {"idle", "refused", "upgrading", "closed"} => s \notin clients
          /\ close_reason[s] # 0 => s \notin clients

\* A session was removed early by the server and then destroyed in CLOSED.
RemovedThenDestroyed ==
    \E s \in Sessions :
       /\ conn[s] = "closed"
       /\ close_reason[s] # 0
       /\ res[s].calls = 1
       /\ client_count = 0

\* C10: whether tty_client_destroy ran once or twice on a session, the child
\* was signalled and waited for at most once, the PTY closed at most once, no
\* buffer, mutex, condition variable or loop was released twice, and the
\* registry count was decremented once.
DestroyIdempotent ==
    /\ client_count = Cardinality(clients)
    /\ \A s \in Sessions :
          \A f \in {"kill", "waitpid", "close", "free_buffer", "free_pty_buffer",
                    "mutex_destroy", "cond_destroy", "loop_close"} :
             res[s][f] <= 1


\* Thread t of session s has finished the spawn: it is past line 247.
SpawnDone(s, t) ==
    th[s][t].pc \notin {"none", "forkpty", "set_pty", "set_running"}

\* C11: once the session's socket is closed and the spawn thread has set pid,
\* pty and running, every child forked for the session has been signalled
\* and reaped and its PTY descriptor closed: no child survives its session.
NoChildSurvives ==
    \A s \in Sessions, t \in Threads :
       conn[s] = "closed" /\ SpawnDone(s, t) =>
          /\ th[s][t].child # "alive"
          /\ th[s][t].child = "reaped" => res[s].close >= 1

\* C12: a session never has more than one spawn thread, and never more than
\* one child forked for it.
OneSpawnPerSession ==
    \A s \in Sessions :
       /\ Cardinality({t \in Threads : th[s][t].pc # "none"}) <= 1
       /\ Cardinality({t \in Threads : th[s][t].child # "none"}) <= 1


\* The frames that are protocol errors: an unknown tag byte, or a resize
\* whose JSON lacks columns or rows.
ProtocolErrors ==
    {<<"UNKNOWN", p>> : p \in Payloads(1, "UNKNOWN")} \cup
    {<<"RESIZE_TERMINAL", p>> : p \in ResizePayloads \ WellFormed}

\* C13: a complete frame that is a protocol error is discarded in every
\* phase of the session, before and after authentication: the socket stays
\* open, the session stays in the registry, and the stored window size and
\* the PTY's size are unchanged.
ProtocolErrorsNotTerminal ==
    [][\A s \in Sessions, m \in ProtocolErrors :
          Completes(s, m[1], m[2]) =>
             /\ conn'[s] = "open"
             /\ s \in clients'
             /\ client'[s].size = client[s].size
             /\ winsz'[s] = winsz[s]]_vars


\* C15: the session's mutex and condition variable are never destroyed while
\* a reader still waits on the condition variable: a reader blocked in
\* uv_cond_wait when tty_client_destroy runs has been woken and has left
\* read_cb.
TeardownWakesReader ==
    \A s \in Sessions, t \in Threads :
       res[s].cond_destroy > 0 \/ res[s].mutex_destroy > 0 =>
          th[s][t].pc \notin {"rc_wait", "rc_woken"}

\* C16: when a complete message has been handled and the session stays
\* open, the inbound assembly buffer is empty, so that the next message is
\* dispatched by its own first byte.
BufferEmptyAfterMessage ==
    [][\A s \in Sessions, tag \in Tags :
          \A p \in Payloads(s, tag) :
             Completes(s, tag, p) /\ conn'[s] = "open" =>
                client'[s].buffer = NULL]_vars


\* C20: the reader never comes to the head of the loop of read_cb, and never
\* returns from read_cb, with the slot mutex still locked by itself: on
\* every path the mutex locked at line 191 is released first.
ReaderReleasesMutex ==
    \A s \in Sessions, t \in Threads :
       th[s][t].pc \in {"rc_loop", "uv_run"} => mutex[s] # t


\* C14: the reader publishes a chunk only into a slot that is not Full; and
\* a reader that waits because the slot was Full is, once the writer has
\* sent the chunk and marked the slot Drained, signalled and publishes again
\* (unless the session is closed first).
BackPressureProgress ==
    /\ [][\A s \in Sessions :
             client[s].state = "STATE_READY" /\ client'[s].state = "STATE_READY"
                => /\ client'[s].pty_buffer = client[s].pty_buffer
                   /\ client'[s].pty_len = client[s].pty_len]_vars
    /\ \A s \in Sessions, t \in Threads :
          (th[s][t].pc = "rc_wait" /\ client[s].state = "STATE_DONE")
             ~> (client[s].state = "STATE_READY" \/ conn[s] # "open")

\* C17: a session whose spawn failed in forkpty does not stay open for ever
\* without a child: it is closed (or, at least, a new spawn is started).
SpawnFailureCloses ==
    \A s \in Sessions :
       (\E t \in Threads : th[s][t].end = "spawn_failed")
          ~> (conn[s] # "open" \/ Spawning(s))


\* C19: once the spawn thread has applied the initial size and entered its
\* loop, the size last set on the PTY is the size last parsed from a
\* RESIZE_TERMINAL frame with positive rows and columns, whether the frame
\* came before, during or after the spawn.
WindowSizeFollowsRequest ==
    \A s \in Sessions, t \in Threads :
       /\ th[s][t].pc \in {"uv_run", "rc_loop", "rc_wait", "rc_woken"}
       /\ th[s][t].sb = <<>>
       /\ client[s].size.ws_row > 0 /\ client[s].size.ws_col > 0
       => winsz[s] = client[s].size


\* C18: a forked child in which execvp failed exits: it never runs the rest
\* of thread_cb (setting session fields, opening the PTY pipe, running the
\* reader loop).
ExecFailureExits ==
    \A s \in Sessions, t \in Threads : th[s][t].child # "in_thread_cb"

====
